---- MODULE Spec2Model ----
(***************************************************************************)
(* A model of LMCacheEngine (src/lmcache/cache_engine.py): the chunked,    *)
(* prefix-hashed KV cache with its store / retrive / persist operations.   *)
(*                                                                         *)
(* Representation choices:                                                 *)
(*  - a tensor is a record [device, data]; data keeps the two axes the     *)
(*    code slices and concatenates on (heads and tokens); the feature axis *)
(*    is always taken whole (":") by the code and is left out.             *)
(*    "huggingface": data[h][p], "vllm": data[p][h].                       *)
(*  - a str / bytes value is a sequence of integers.  SHA-256 is taken as  *)
(*    collision free: the hex digest of a byte string b is b between two   *)
(*    delimiters that are no token byte.                                   *)
(*  - a raised exception is the "result" field of a call's outcome.        *)
(***************************************************************************)
EXTENDS Integers, Sequences, FiniteSets, TLC

\* ---------------------------------------------------------------- bounds
MaxLen == 2
NumTokenIds == 2
MaxChunkSize == 2
NumBundles == 2
NumLayers == 2
NumHeads == 2
MaxCalls == 2
NumStoreThreads == 2

\* np.int64 token ids: 8 bytes each in tokens.numpy().tobytes()
TokenBytes == 8
\* delimiters of a hex digest (outside 0..255, the range of a token byte)
HexOpen == 256
HexClose == 257

VARIABLES chunk_size, persist_path, dict, disk, last, prev, calls, threads

vars == <<chunk_size, persist_path, dict, disk, last, prev, calls, threads>>

\* ------------------------------------------------------------ input sets
TokenIds == 1..NumTokenIds
RECURSIVE SeqsOfLen(_, _)
SeqsOfLen(S, n) ==
    IF n = 0 THEN {<<>>}
    ELSE {Append(s, x) : s \in SeqsOfLen(S, n - 1), x \in S}
TokenSeqs == UNION {SeqsOfLen(TokenIds, n) : n \in 0..MaxLen}
Formats == {"huggingface", "vllm"}
AnyFormat == Formats \cup {"other"}
Devices == {"cpu", "cuda"}
BundleIds == 1..NumBundles

Min(a, b) == IF a < b THEN a ELSE b

\* python s[start:end] for 0 <= start <= end: the end is clamped to len(s)
Slice(s, start, end) == SubSeq(s, start + 1, Min(end, Len(s)))

\* a sequence given as a function, with its elements evaluated once
Tuple(f) == f \o <<>>

\* python range(0, n, step) as a sequence
Range0(n, step) == Tuple([j \in 1..((n + step - 1) \div step) |-> (j - 1) * step])

\* python zip of two sequences: as long as the shorter one
Zip(a, b) == Tuple([j \in 1..Min(Len(a), Len(b)) |-> <<a[j], b[j]>>])

RECURSIVE Flatten(_)
Flatten(ss) == IF ss = <<>> THEN <<>> ELSE Head(ss) \o Flatten(Tail(ss))

\* --------------------------------------------------------------- tensors
\* The element of bundle b, layer l, key (0) or value (1), head h, token
\* position p, as the decimal digits b l kv h p: every element of every input
\* bundle is a different number.
Elem(b, l, kv, h, p) == (((b * 10 + l) * 10 + kv) * 10 + h) * 10 + p

Tensor(b, l, kv, n, fmt, device) ==
    [device |-> device,
     data |-> IF fmt = "vllm"
              THEN Tuple([p \in 1..n |-> Tuple([h \in 1..NumHeads |-> Elem(b, l, kv, h, p)])])
              ELSE Tuple([h \in 1..NumHeads |-> Tuple([p \in 1..n |-> Elem(b, l, kv, h, p)])])]

\* the kv_tensors argument of a call: nlayers (key, value) pairs of n tokens
KVInput(b, n, nlayers, fmt) ==
    Tuple([l \in 1..nlayers |->
        <<Tensor(b, l, 0, n, fmt, "cuda"), Tensor(b, l, 1, n, fmt, "cuda")>>])

\* tensor.shape[dim] for dim in {0, 1}
Shape(t, dim) == IF dim = 0 THEN Len(t.data) ELSE Len(t.data[1])

To(t, device) == [t EXCEPT !.device = device]

\* t[start:end, :, :]
SliceDim0(t, start, end) == [t EXCEPT !.data = Slice(t.data, start, end)]
\* t[:, start:end, :]
SliceDim1(t, start, end) ==
    [t EXCEPT !.data = Tuple([h \in 1..Len(t.data) |-> Slice(t.data[h], start, end)])]

\* whether torch.cat(ts, dim) accepts the tensors: their sizes agree on the
\* axis that is not dim (it raises a RuntimeError otherwise)
CatAccepts(ts, dim) ==
    IF dim = 0
    THEN \A j, k \in 1..Len(ts) :
            \A p \in 1..Len(ts[j].data), q \in 1..Len(ts[k].data) :
               Len(ts[j].data[p]) = Len(ts[k].data[q])
    ELSE \A j, k \in 1..Len(ts) : Len(ts[j].data) = Len(ts[k].data)

\* mutant: the tensors are joined last to first
Cat_reversed(ts, dim) ==
    [device |-> ts[1].device,
     data |-> IF dim = 0
              THEN Flatten([j \in 1..Len(ts) |-> ts[Len(ts) + 1 - j].data])
              ELSE Tuple([h \in 1..Len(ts[1].data) |->
                       Flatten([j \in 1..Len(ts) |-> ts[Len(ts) + 1 - j].data[h]])])]

\* torch.cat(ts, dim) of a non-empty list of tensors
Cat(ts, dim) ==
    [device |-> ts[1].device,
     data |-> IF dim = 0
              THEN Flatten([j \in 1..Len(ts) |-> ts[j].data])
              ELSE Tuple([h \in 1..Len(ts[1].data) |->
                       Flatten([j \in 1..Len(ts) |-> ts[j].data[h]])])]

\* the values of a bundle, without the device they live on
Data(kv) == Tuple([l \in 1..Len(kv) |-> <<kv[l][1].data, kv[l][2].data>>])

\* ------------------------------------------------------- LMCacheEngine
num_tokens_in_kv(kv_tensors, fmt) ==
    IF fmt = "huggingface" THEN Shape(kv_tensors[1][1], 1)
    ELSE Shape(kv_tensors[1][1], 0)

\* mutant: the chain starts from the digest of the empty string
get_init_hash_digest == <<HexOpen, HexClose>>

get_init_hash == <<>>

\* byte k (0 is the lowest) of the non-negative integer t
RECURSIVE ByteAt(_, _)
ByteAt(t, k) == IF k = 0 THEN t % 256 ELSE ByteAt(t \div 256, k - 1)

\* little-endian bytes of the int64 token ids
tobytes(tokens) ==
    Tuple([i \in 1..(Len(tokens) * TokenBytes) |->
        ByteAt(tokens[((i - 1) \div TokenBytes) + 1], (i - 1) % TokenBytes)])

\* str.encode("ascii"): the code points, unchanged
encode(s) == s

sha256_hexdigest(bytes) == <<HexOpen>> \o bytes \o <<HexClose>>

\* mutant: the prefix hash is left out of the digest
hash_without_prefix(tokens, prefix_hash) == sha256_hexdigest(tobytes(tokens))

hash(tokens, prefix_hash) == sha256_hexdigest(encode(prefix_hash) \o tobytes(tokens))

chunk_tokens(tokens, cs) ==
    LET starts == Range0(Len(tokens), cs)
    IN  Tuple([j \in 1..Len(starts) |-> Slice(tokens, starts[j], starts[j] + cs)])

\* mutant: the running prefix hash is never updated, so each chunk is hashed
\* alone
RECURSIVE prefix_hash_from_unchained(_, _, _)
prefix_hash_from_unchained(token_chunks, i, prefix) ==
    IF i > Len(token_chunks) THEN <<>>
    ELSE <<hash(token_chunks[i], prefix)>>
         \o prefix_hash_from_unchained(token_chunks, i + 1, prefix)

RECURSIVE prefix_hash_from(_, _, _)
prefix_hash_from(token_chunks, i, prefix) ==
    IF i > Len(token_chunks) THEN <<>>
    ELSE LET h == hash(token_chunks[i], prefix)
         IN  <<h>> \o prefix_hash_from(token_chunks, i + 1, h)

prefix_hash(token_chunks) == prefix_hash_from(token_chunks, 1, get_init_hash)

\* mutant: the slice stops one token early
slice_kv_at_short(start_idx, end_idx, kv_tensors, fmt, device) ==
    IF fmt = "huggingface"
    THEN Tuple([l \in 1..Len(kv_tensors) |->
            <<To(SliceDim1(kv_tensors[l][1], start_idx, end_idx - 1), device),
              To(SliceDim1(kv_tensors[l][2], start_idx, end_idx - 1), device)>>])
    ELSE Tuple([l \in 1..Len(kv_tensors) |->
            <<To(SliceDim0(kv_tensors[l][1], start_idx, end_idx - 1), device),
              To(SliceDim0(kv_tensors[l][2], start_idx, end_idx - 1), device)>>])

\* mutant: the slice takes one token more
slice_kv_at_long(start_idx, end_idx, kv_tensors, fmt, device) ==
    IF fmt = "huggingface"
    THEN Tuple([l \in 1..Len(kv_tensors) |->
            <<To(SliceDim1(kv_tensors[l][1], start_idx, end_idx + 1), device),
              To(SliceDim1(kv_tensors[l][2], start_idx, end_idx + 1), device)>>])
    ELSE Tuple([l \in 1..Len(kv_tensors) |->
            <<To(SliceDim0(kv_tensors[l][1], start_idx, end_idx + 1), device),
              To(SliceDim0(kv_tensors[l][2], start_idx, end_idx + 1), device)>>])

slice_kv_at(start_idx, end_idx, kv_tensors, fmt, device) ==
    IF fmt = "huggingface"
    THEN Tuple([l \in 1..Len(kv_tensors) |->
            <<To(SliceDim1(kv_tensors[l][1], start_idx, end_idx), device),
              To(SliceDim1(kv_tensors[l][2], start_idx, end_idx), device)>>])
    ELSE Tuple([l \in 1..Len(kv_tensors) |->
            <<To(SliceDim0(kv_tensors[l][1], start_idx, end_idx), device),
              To(SliceDim0(kv_tensors[l][2], start_idx, end_idx), device)>>])

\* mutant: every chunk is the slice [0:chunk_size] of the bundle
chunk_kv_first(kv_tensors, fmt, device, cs) ==
    LET starts == Range0(num_tokens_in_kv(kv_tensors, fmt), cs)
    IN  Tuple([j \in 1..Len(starts) |-> slice_kv_at(0, cs, kv_tensors, fmt, device)])

chunk_kv(kv_tensors, fmt, device, cs) ==
    LET starts == Range0(num_tokens_in_kv(kv_tensors, fmt), cs)
    IN  Tuple([j \in 1..Len(starts) |->
            slice_kv_at(starts[j], starts[j] + cs, kv_tensors, fmt, device)])

\* mutant: the layout is left out of the key
Key_without_fmt(chunk_hash, fmt) == <<chunk_hash, "">>

Key(chunk_hash, fmt) == <<chunk_hash, fmt>>

EmptyDict == [k \in {} |-> <<>>]

\* mutant: the put replaces the whole store by the one entry
Put_alone(d, k, v) == [x \in {k} |-> v]

Put(d, k, v) == [x \in (DOMAIN d) \cup {k} |-> IF x = k THEN v ELSE d[x]]

\* mutant: every candidate is the slice [0:chunk_size] of the bundle
skip_exsiting_candidates_from_zero(tokens, kv_tensors, fmt, device, cs) ==
    LET chunk_hashes == prefix_hash(chunk_tokens(tokens, cs))
        num_tokens == num_tokens_in_kv(kv_tensors, fmt)
        pairs == Zip(chunk_hashes, Range0(num_tokens, cs))
    IN  Tuple([j \in 1..Len(pairs) |->
            <<pairs[j][1], slice_kv_at(0, cs, kv_tensors, fmt, device)>>])

\* the (chunk_hash, kv_chunk) pairs of _make_chunks_skip_exsiting before its
\* "not in self.dict" test, which Yields states
skip_exsiting_candidates(tokens, kv_tensors, fmt, device, cs) ==
    LET chunk_hashes == prefix_hash(chunk_tokens(tokens, cs))
        num_tokens == num_tokens_in_kv(kv_tensors, fmt)
        pairs == Zip(chunk_hashes, Range0(num_tokens, cs))
    IN  Tuple([j \in 1..Len(pairs) |->
            <<pairs[j][1],
              slice_kv_at(pairs[j][2], pairs[j][2] + cs, kv_tensors, fmt, device)>>])

\* mutant: the presence test is left out
Yields_always(d, chunk_hash, fmt, skip_existing) == TRUE

\* whether the generator yields a candidate when it reaches it with store d
Yields(d, chunk_hash, fmt, skip_existing) ==
    ~skip_existing \/ Key(chunk_hash, fmt) \notin DOMAIN d

make_chunks(tokens, kv_tensors, fmt, device, skip_existing, cs) ==
    IF skip_existing
    THEN skip_exsiting_candidates(tokens, kv_tensors, fmt, device, cs)
    ELSE Zip(prefix_hash(chunk_tokens(tokens, cs)),
             chunk_kv(kv_tensors, fmt, device, cs))

\* mutant: the generator ends at the first key that is present
RECURSIVE store_from_stop_at_present(_, _, _, _, _)
store_from_stop_at_present(d, items, fmt, skip_existing, i) ==
    IF i > Len(items) THEN [dict |-> d, n_chunks |-> 0]
    ELSE IF ~Yields(d, items[i][1], fmt, skip_existing)
         THEN [dict |-> d, n_chunks |-> 0]
         ELSE LET r == store_from_stop_at_present(
                           Put(d, Key(items[i][1], fmt), items[i][2]),
                           items, fmt, skip_existing, i + 1)
              IN  [dict |-> r.dict, n_chunks |-> r.n_chunks + 1]

\* the loop of store from item i on: the generator is lazy, so each item is
\* tested against the store as the earlier items left it
RECURSIVE store_from(_, _, _, _, _)
store_from(d, items, fmt, skip_existing, i) ==
    IF i > Len(items) THEN [dict |-> d, n_chunks |-> 0]
    ELSE IF ~Yields(d, items[i][1], fmt, skip_existing)
         THEN store_from(d, items, fmt, skip_existing, i + 1)
         ELSE LET r == store_from(Put(d, Key(items[i][1], fmt), items[i][2]),
                                  items, fmt, skip_existing, i + 1)
              IN  [dict |-> r.dict, n_chunks |-> r.n_chunks + 1]

\* mutant: the token count of the bundle is not compared with len(tokens)
store_without_count_check(d, cs, tokens, ndim, kv_tensors, fmt, skip_existing) ==
    LET failed(e) == [result |-> e, dict |-> d, n_chunks |-> 0, returned |-> <<>>]
    IN  IF ndim # 1 THEN failed("AssertionError")
        ELSE IF ~(Len(kv_tensors) > 0) THEN failed("AssertionError")
        ELSE IF fmt \notin Formats THEN failed("ValueError")
        ELSE LET r == store_from(d, make_chunks(tokens, kv_tensors, fmt, "cpu",
                                                skip_existing, cs),
                                 fmt, skip_existing, 1)
             IN  [result |-> "None", dict |-> r.dict, n_chunks |-> r.n_chunks,
                  returned |-> <<>>]

\* mutant: a layout that is neither "huggingface" nor "vllm" is not rejected
\* (_num_tokens_in_kv and _slice_kv_at take their last branch for it)
store_any_layout(d, cs, tokens, ndim, kv_tensors, fmt, skip_existing) ==
    LET failed(e) == [result |-> e, dict |-> d, n_chunks |-> 0, returned |-> <<>>]
    IN  IF ndim # 1 THEN failed("AssertionError")
        ELSE IF ~(Len(kv_tensors) > 0) THEN failed("AssertionError")
        ELSE IF Len(tokens) # num_tokens_in_kv(kv_tensors, fmt)
             THEN failed("AssertionError")
        ELSE LET r == store_from(d, make_chunks(tokens, kv_tensors, fmt, "cpu",
                                                skip_existing, cs),
                                 fmt, skip_existing, 1)
             IN  [result |-> "None", dict |-> r.dict, n_chunks |-> r.n_chunks,
                  returned |-> <<>>]

\* store: the outcome [result, dict, n_chunks, returned] of a call on store d.
\* returned is <<>> for None.
store(d, cs, tokens, ndim, kv_tensors, fmt, skip_existing) ==
    LET failed(e) == [result |-> e, dict |-> d, n_chunks |-> 0, returned |-> <<>>]
    IN  IF ndim # 1 THEN failed("AssertionError")
        ELSE IF ~(Len(kv_tensors) > 0) THEN failed("AssertionError")
        ELSE IF fmt \notin Formats THEN failed("ValueError")
        ELSE IF Len(tokens) # num_tokens_in_kv(kv_tensors, fmt)
             THEN failed("AssertionError")
        ELSE LET r == store_from(d, make_chunks(tokens, kv_tensors, fmt, "cpu",
                                                skip_existing, cs),
                                 fmt, skip_existing, 1)
             IN  [result |-> "None", dict |-> r.dict, n_chunks |-> r.n_chunks,
                  returned |-> <<>>]

\* the number of tuples zip(*kv_chunks) yields: the layers of the chunk that
\* has the fewest
ZipLayers(kv_chunks) ==
    IF kv_chunks = <<>> THEN 0
    ELSE CHOOSE n \in 0..NumLayers :
            /\ \A j \in 1..Len(kv_chunks) : n <= Len(kv_chunks[j])
            /\ \E j \in 1..Len(kv_chunks) : n = Len(kv_chunks[j])

\* whether _concat_kv_chunks runs to its end: every torch.cat accepts its list
concat_kv_chunks_defined(kv_chunks, dim) ==
    \A l \in 1..ZipLayers(kv_chunks), s \in 1..2 :
       CatAccepts(Tuple([j \in 1..Len(kv_chunks) |-> kv_chunks[j][l][s]]), dim)

concat_kv_chunks(kv_chunks, dim, fmt, device) ==
    LET nlayers == ZipLayers(kv_chunks)
    IN  Tuple([l \in 1..nlayers |->
            <<To(Cat(Tuple([j \in 1..Len(kv_chunks) |-> kv_chunks[j][l][1]]), dim), device),
              To(Cat(Tuple([j \in 1..Len(kv_chunks) |-> kv_chunks[j][l][2]]), dim), device)>>])

\* mutant: a miss is skipped (continue) instead of ending the loop (break)
RECURSIVE retrive_from_continue(_, _, _, _)
retrive_from_continue(d, chunk_hashes, fmt, i) ==
    IF i > Len(chunk_hashes) THEN <<>>
    ELSE IF Key(chunk_hashes[i], fmt) \in DOMAIN d
         THEN <<d[Key(chunk_hashes[i], fmt)]>>
              \o retrive_from_continue(d, chunk_hashes, fmt, i + 1)
         ELSE retrive_from_continue(d, chunk_hashes, fmt, i + 1)

\* the lookup loop of retrive from hash i on: stops at the first miss
RECURSIVE retrive_from(_, _, _, _)
retrive_from(d, chunk_hashes, fmt, i) ==
    IF i > Len(chunk_hashes) THEN <<>>
    ELSE IF Key(chunk_hashes[i], fmt) \in DOMAIN d
         THEN <<d[Key(chunk_hashes[i], fmt)]>> \o retrive_from(d, chunk_hashes, fmt, i + 1)
         ELSE <<>>

\* mutant: the token count is read from ret[0][0] without the test for an
\* empty ret, which raises an IndexError
retrive_without_empty_test(d, cs, tokens, fmt, device) ==
    LET chunk_hashes == prefix_hash(chunk_tokens(tokens, cs))
        retrived_kv_chunks == retrive_from(d, chunk_hashes, fmt, 1)
        dim == IF fmt = "huggingface" THEN 1 ELSE 0
        ret == concat_kv_chunks(retrived_kv_chunks, dim, fmt, device)
    IN  IF fmt \notin Formats
        THEN [result |-> "ValueError", returned |-> <<>>]
        ELSE IF ~concat_kv_chunks_defined(retrived_kv_chunks, dim)
        THEN [result |-> "RuntimeError", returned |-> <<>>]
        ELSE IF Len(ret) = 0
        THEN [result |-> "IndexError", returned |-> <<>>]
        ELSE [result |-> "tuple", returned |-> <<ret, Shape(ret[1][1], dim)>>]

\* retrive: the outcome [result, returned] of a call on store d; returned is
\* <<ret, retrived_token_count>>, or <<>> when the call raises
retrive(d, cs, tokens, fmt, device) ==
    LET chunk_hashes == prefix_hash(chunk_tokens(tokens, cs))
        retrived_kv_chunks == retrive_from(d, chunk_hashes, fmt, 1)
        dim == IF fmt = "huggingface" THEN 1 ELSE 0
        ret == concat_kv_chunks(retrived_kv_chunks, dim, fmt, device)
        retrived_token_count == IF Len(ret) = 0 THEN 0 ELSE Shape(ret[1][1], dim)
    IN  IF fmt \notin Formats
        THEN [result |-> "ValueError", returned |-> <<>>]
        ELSE IF ~concat_kv_chunks_defined(retrived_kv_chunks, dim)
        THEN [result |-> "RuntimeError", returned |-> <<>>]
        ELSE [result |-> "tuple", returned |-> <<ret, retrived_token_count>>]

\* the tail of retrive after its lookup loop: the concatenation of the chunks
\* it collected and the token count
retrive_finish(retrived_kv_chunks, fmt, device) ==
    LET dim == IF fmt = "huggingface" THEN 1 ELSE 0
        ret == concat_kv_chunks(retrived_kv_chunks, dim, fmt, device)
        retrived_token_count == IF Len(ret) = 0 THEN 0 ELSE Shape(ret[1][1], dim)
    IN  IF fmt \notin Formats
        THEN [result |-> "ValueError", returned |-> <<>>]
        ELSE IF ~concat_kv_chunks_defined(retrived_kv_chunks, dim)
        THEN [result |-> "RuntimeError", returned |-> <<>>]
        ELSE [result |-> "tuple", returned |-> <<ret, retrived_token_count>>]

\* ------------------------------------------------------------ the engine
NoPath == "None"
SomePath == "kv.pt"
\* os.path.isfile(persist_path) is false
NoFile == [isfile |-> FALSE, content |-> EmptyDict]
File(d) == [isfile |-> TRUE, content |-> d]

\* A persisted file found at construction.  It holds entries as store writes
\* them (chunks of SnapshotTokens under one layout, cut with the engine's
\* chunk size), but any subset of them: the file is not written by this
\* engine instance.
SnapshotTokens == [i \in 1..(MaxLen + 1) |-> 1]
Snapshot(cs, fmt, b, kept) ==
    LET items == make_chunks(SnapshotTokens,
                             KVInput(b, Len(SnapshotTokens), NumLayers, fmt),
                             fmt, "cpu", FALSE, cs)
    IN  [k \in {Key(items[j][1], fmt) : j \in kept} |->
            LET j == CHOOSE j \in kept : Key(items[j][1], fmt) = k IN items[j][2]]
SnapshotFiles(cs) ==
    {File(Snapshot(cs, fmt, 1, kept)) :
        fmt \in Formats,
        kept \in (SUBSET (1..Len(Range0(Len(SnapshotTokens), cs)))) \ {{}}}

\* The record of a call: its arguments and its outcome.  For store, n_chunks
\* and size are the two numbers it logs (chunks stored, len(self.dict)), and
\* size_before is len(self.dict) on entry.
NoCall ==
    [op |-> "none", tokens |-> <<>>, ndim |-> 1, bundle |-> 0, ntok |-> 0,
     nlayers |-> 0, fmt |-> "none", skip_existing |-> FALSE, device |-> "none",
     result |-> "none", returned |-> <<>>, n_chunks |-> 0,
     size_before |-> 0, size |-> 0]

\* what prev keeps of the call before the last one: a store that returned
Completed(call) == IF call.op = "store" /\ call.result = "None" THEN call ELSE NoCall

\* __init__
Init ==
    /\ chunk_size \in 1..MaxChunkSize
    /\ persist_path \in {NoPath, SomePath}
    /\ disk \in IF persist_path = NoPath THEN {NoFile}
                ELSE {NoFile} \cup SnapshotFiles(chunk_size)
    /\ dict = IF persist_path # NoPath /\ disk.isfile THEN disk.content ELSE EmptyDict
    /\ last = NoCall
    /\ prev = NoCall
    /\ calls = 0
    /\ threads = <<>>

\* The arguments <<ndim, nlayers, ntok, fmt>> of a store call on tokens that
\* break a precondition: each one alone, all three together, and an invalid
\* layout alone, with a wrong token count, with tokens that are not
\* one-dimensional and with no layers.
MalformedArgs(tokens) ==
    LET n == Len(tokens)
    IN  ({<<2, NumLayers, n>>, <<1, 0, n>>, <<1, NumLayers, n + 1>>, <<2, 0, n + 1>>}
            \X Formats)
        \cup ({<<1, NumLayers, n>>, <<1, NumLayers, n + 1>>, <<2, NumLayers, n>>,
               <<1, 0, n>>} \X {"other"})

Store(tokens, ndim, b, ntok, nlayers, fmt, skip_existing) ==
    /\ calls < MaxCalls
    /\ \E r \in {store(dict, chunk_size, tokens, ndim, KVInput(b, ntok, nlayers, fmt),
                       fmt, skip_existing)} :
        /\ calls' = calls + 1
        /\ dict' = r.dict
        /\ prev' = Completed(last)
        /\ last' = [NoCall EXCEPT !.op = "store", !.tokens = tokens, !.ndim = ndim,
                       !.bundle = b, !.ntok = ntok, !.nlayers = nlayers, !.fmt = fmt,
                       !.skip_existing = skip_existing, !.result = r.result,
                       !.returned = r.returned, !.n_chunks = r.n_chunks,
                       !.size_before = Cardinality(DOMAIN dict),
                       !.size = Cardinality(DOMAIN r.dict)]
        /\ UNCHANGED <<chunk_size, persist_path, disk, threads>>

\* mutant: the entries retrive reads are taken out of the store (pop)
Retrive_pops(tokens, fmt, device) ==
    /\ calls < MaxCalls
    /\ \E r \in {retrive(dict, chunk_size, tokens, fmt, device)} :
        LET hs == prefix_hash(chunk_tokens(tokens, chunk_size))
            keys == Tuple([j \in 1..Len(hs) |-> Key(hs[j], fmt)])
            read == {keys[j] : j \in 1..Len(retrive_from(dict, hs, fmt, 1))}
        IN  /\ calls' = calls + 1
            /\ prev' = Completed(last)
            /\ last' = [NoCall EXCEPT !.op = "retrive", !.tokens = tokens, !.fmt = fmt,
                           !.device = device, !.result = r.result,
                           !.returned = r.returned]
            /\ dict' = [k \in (DOMAIN dict) \ read |-> dict[k]]
            /\ UNCHANGED <<chunk_size, persist_path, disk, threads>>

Retrive(tokens, fmt, device) ==
    /\ calls < MaxCalls
    /\ \E r \in {retrive(dict, chunk_size, tokens, fmt, device)} :
        /\ calls' = calls + 1
        /\ prev' = Completed(last)
        /\ last' = [NoCall EXCEPT !.op = "retrive", !.tokens = tokens, !.fmt = fmt,
                       !.device = device, !.result = r.result,
                       !.returned = r.returned]
        /\ UNCHANGED <<chunk_size, persist_path, dict, disk, threads>>

Persist ==
    /\ calls < MaxCalls
    /\ calls' = calls + 1
    /\ prev' = Completed(last)
    /\ IF persist_path # NoPath
       THEN /\ disk' = File(dict)
            /\ last' = [NoCall EXCEPT !.op = "persist", !.result = "None"]
       ELSE /\ disk' = disk
            /\ last' = [NoCall EXCEPT !.op = "persist", !.result = "RuntimeError"]
    /\ UNCHANGED <<chunk_size, persist_path, dict, threads>>

\* a store call whose arguments meet the preconditions
StoreWellFormed ==
    \E tokens \in TokenSeqs, b \in BundleIds, fmt \in Formats,
       skip_existing \in BOOLEAN :
       Store(tokens, 1, b, Len(tokens), NumLayers, fmt, skip_existing)

\* a store call whose arguments break one (the preconditions read only the
\* length of tokens: one token sequence of each length is drawn)
StoreMalformed ==
    \E tokens \in {SubSeq(SnapshotTokens, 1, n) : n \in 0..MaxLen} :
       \E a \in MalformedArgs(tokens) :
          Store(tokens, a[1][1], 1, a[1][3], a[1][2], a[2], TRUE)

RetriveCall ==
    \E tokens \in TokenSeqs \cup {SnapshotTokens}, fmt \in AnyFormat, device \in Devices :
       Retrive(tokens, fmt, device)

Next ==
    \/ StoreWellFormed
    \/ StoreMalformed
    \/ RetriveCall
    \/ Persist

Spec == Init /\ [][Next]_vars

\* ------------------------------------------------- the hash chain alone
\* Two token sequences are chunked and hashed one after the other by an
\* engine with an empty store; last and prev record the two chains.
HashSeqs == UNION {SeqsOfLen(TokenIds, n) : n \in 0..(MaxLen + 1)}

HashInit ==
    /\ chunk_size \in 1..MaxChunkSize
    /\ persist_path = NoPath
    /\ disk = NoFile
    /\ dict = EmptyDict
    /\ last = NoCall
    /\ prev = NoCall
    /\ calls = 0
    /\ threads = <<>>

HashChain(tokens) ==
    /\ calls < MaxCalls
    /\ calls' = calls + 1
    /\ prev' = last
    /\ last' = [NoCall EXCEPT !.op = "prefix_hash", !.tokens = tokens,
                   !.returned = prefix_hash(chunk_tokens(tokens, chunk_size))]
    /\ UNCHANGED <<chunk_size, persist_path, dict, disk, threads>>

HashNext == \E tokens \in HashSeqs : HashChain(tokens)

HashSpec == HashInit /\ [][HashNext]_vars

\* --------------------------------------------- calls running step by step
\* Calls on one engine, started empty, that run concurrently and interleave
\* at single map lookups and single-key puts.  Threads 1..NumStoreThreads each
\* make one store call with a bundle of their own (bundle t for thread t);
\* thread RetriveThread makes one retrive call.  A store call may fail while
\* it produces a chunk (the slice or its transfer to the cpu raises).
\* Fields of a thread: pc is its position, i the chunk it is at (from 1),
\* cand the chunk the generator yielded, got the chunks retrive collected;
\* written (the chunks this call put) and after (the calls that had ended
\* when this one started) are history.  The calls of one run use one layout:
\* calls under different layouts touch different keys.
StoreThreads == 1..NumStoreThreads
RetriveThread == NumStoreThreads + 1
Threads == StoreThreads \cup {RetriveThread}
ConcSeqs == {<<1>>, <<1, 1>>, <<1, 2>>}

NoThread ==
    [pc |-> "idle", op |-> "none", tokens |-> <<>>, bundle |-> 0, nlayers |-> 0,
     fmt |-> "none", skip_existing |-> FALSE, device |-> "none", i |-> 0,
     cand |-> <<>>, got |-> <<>>, written |-> {}, after |-> {}, n_chunks |-> 0,
     result |-> "none", returned |-> <<>>]

ConcInit ==
    /\ chunk_size \in 1..MaxChunkSize
    /\ persist_path = NoPath
    /\ disk = NoFile
    /\ dict = EmptyDict
    /\ last = NoCall
    /\ prev = NoCall
    /\ calls = 0
    /\ threads = [t \in Threads |-> NoThread]

Ended(t) == threads[t].pc \in {"done", "failed"}

\* the layout of the calls started so far is fmt
OneLayout(fmt) == \A u \in Threads : threads[u].op # "none" => threads[u].fmt = fmt

\* the chunk hashes of the tokens of thread t
HashesOf(t) == prefix_hash(chunk_tokens(threads[t].tokens, chunk_size))

\* the position after chunk i of n in a store loop
AfterChunk(i, n) == IF i >= n THEN "done" ELSE "next"

\* store is entered: the assertions hold for the arguments drawn here
StartStore(t, tokens, fmt, skip_existing) ==
    /\ t \in StoreThreads
    /\ threads[t].pc = "idle"
    /\ OneLayout(fmt)
    /\ threads' = [threads EXCEPT ![t] =
          [NoThread EXCEPT !.op = "store", !.tokens = tokens, !.bundle = t,
              !.nlayers = NumLayers, !.fmt = fmt, !.skip_existing = skip_existing,
              !.i = 1, !.after = {u \in Threads : Ended(u)},
              !.pc = AfterChunk(0, Len(Range0(Len(tokens), chunk_size))),
              !.result = IF Len(tokens) = 0 THEN "None" ELSE "none"]]
    /\ UNCHANGED <<chunk_size, persist_path, dict, disk, last, prev, calls>>

\* the generator is asked for its next item: it tests the key of chunk i and
\* either slices the chunk and yields it or goes on to the next chunk
StoreProduce(t) ==
    /\ threads[t].op = "store" /\ threads[t].pc = "next"
    /\ LET th == threads[t]
           items == make_chunks(th.tokens,
                                KVInput(th.bundle, Len(th.tokens), th.nlayers, th.fmt),
                                th.fmt, "cpu", th.skip_existing, chunk_size)
       IN  threads' = [threads EXCEPT ![t] =
              IF Yields(dict, items[th.i][1], th.fmt, th.skip_existing)
              THEN [th EXCEPT !.cand = items[th.i][2], !.pc = "put"]
              ELSE [th EXCEPT !.i = th.i + 1, !.pc = AfterChunk(th.i, Len(items)),
                              !.result = IF th.i >= Len(items) THEN "None" ELSE "none"]]
    /\ UNCHANGED <<chunk_size, persist_path, dict, disk, last, prev, calls>>

\* mutant: a call that fails takes back the entries it wrote
StoreFail_rollback(t) ==
    /\ threads[t].op = "store" /\ threads[t].pc = "next"
    /\ Yields(dict, HashesOf(t)[threads[t].i], threads[t].fmt, threads[t].skip_existing)
    /\ threads' = [threads EXCEPT ![t].pc = "failed", ![t].result = "RuntimeError"]
    /\ dict' = [k \in (DOMAIN dict) \
                      {Key(HashesOf(t)[j], threads[t].fmt) : j \in threads[t].written}
                  |-> dict[k]]
    /\ UNCHANGED <<chunk_size, persist_path, disk, last, prev, calls>>

\* producing chunk i raises: the exception leaves the loop of store
StoreFail(t) ==
    /\ threads[t].op = "store" /\ threads[t].pc = "next"
    /\ Yields(dict, HashesOf(t)[threads[t].i], threads[t].fmt, threads[t].skip_existing)
    /\ threads' = [threads EXCEPT ![t].pc = "failed", ![t].result = "RuntimeError"]
    /\ UNCHANGED <<chunk_size, persist_path, dict, disk, last, prev, calls>>

\* what a thread becomes when it has put chunk i
AfterPut(th, n) ==
    [th EXCEPT !.written = th.written \cup {th.i}, !.n_chunks = th.n_chunks + 1,
               !.i = th.i + 1, !.cand = <<>>, !.pc = AfterChunk(th.i, n),
               !.result = IF th.i >= n THEN "None" ELSE "none"]

\* mutant: the bundle is published layer by layer, the first layer in one
\* step and the whole bundle in the next
StorePut_torn(t) ==
    /\ threads[t].op = "store" /\ threads[t].pc = "put"
    /\ LET th == threads[t]
           k == Key(HashesOf(t)[th.i], th.fmt)
           part == SubSeq(th.cand, 1, 1)
       IN  IF k \in DOMAIN dict /\ dict[k] = part
           THEN /\ dict' = Put(dict, k, th.cand)
                /\ threads' = [threads EXCEPT ![t] = AfterPut(th, Len(HashesOf(t)))]
           ELSE /\ dict' = Put(dict, k, part)
                /\ threads' = threads
    /\ UNCHANGED <<chunk_size, persist_path, disk, last, prev, calls>>

\* mutant: a put on a key that is present rewrites the key tensors only, so
\* the value tensors of the old bundle stay
StorePut_mixed(t) ==
    /\ threads[t].op = "store" /\ threads[t].pc = "put"
    /\ LET th == threads[t]
           k == Key(HashesOf(t)[th.i], th.fmt)
       IN  /\ dict' = Put(dict, k,
                  IF k \in DOMAIN dict
                  THEN Tuple([l \in 1..Len(th.cand) |-> <<th.cand[l][1], dict[k][l][2]>>])
                  ELSE th.cand)
           /\ threads' = [threads EXCEPT ![t] = AfterPut(th, Len(HashesOf(t)))]
    /\ UNCHANGED <<chunk_size, persist_path, disk, last, prev, calls>>

\* self.dict[(chunk_hash, fmt)] = kv_chunk; n_chunks += 1
StorePut(t) ==
    /\ threads[t].op = "store" /\ threads[t].pc = "put"
    /\ LET th == threads[t]
       IN  /\ dict' = Put(dict, Key(HashesOf(t)[th.i], th.fmt), th.cand)
           /\ threads' = [threads EXCEPT ![t] = AfterPut(th, Len(HashesOf(t)))]
    /\ UNCHANGED <<chunk_size, persist_path, disk, last, prev, calls>>

\* what a retrive thread becomes when its loop ends with the chunks got
Returned(th, got) ==
    LET r == retrive_finish(got, th.fmt, th.device)
    IN  [th EXCEPT !.got = got, !.pc = "done", !.result = r.result,
                   !.returned = r.returned]

StartRetrive(t, tokens, fmt, device) ==
    /\ t = RetriveThread
    /\ threads[t].pc = "idle"
    /\ OneLayout(fmt)
    /\ LET th == [NoThread EXCEPT !.op = "retrive", !.tokens = tokens, !.fmt = fmt,
                     !.device = device, !.i = 1, !.pc = "next",
                     !.after = {u \in Threads : Ended(u)}]
       IN  threads' = [threads EXCEPT ![t] =
              IF Len(tokens) = 0 THEN Returned(th, <<>>) ELSE th]
    /\ UNCHANGED <<chunk_size, persist_path, dict, disk, last, prev, calls>>

\* if (chunk_hash, fmt) in self.dict: ... else: break
RetriveTest(t) ==
    /\ threads[t].op = "retrive" /\ threads[t].pc = "next"
    /\ LET th == threads[t]
       IN  threads' = [threads EXCEPT ![t] =
              IF Key(HashesOf(t)[th.i], th.fmt) \in DOMAIN dict
              THEN [th EXCEPT !.pc = "get"]
              ELSE Returned(th, th.got)]
    /\ UNCHANGED <<chunk_size, persist_path, dict, disk, last, prev, calls>>

\* retrived_kv_chunks.append(self.dict[(chunk_hash, fmt)])
RetriveGet(t) ==
    /\ threads[t].op = "retrive" /\ threads[t].pc = "get"
    /\ LET th == threads[t]
           got == Append(th.got, dict[Key(HashesOf(t)[th.i], th.fmt)])
       IN  threads' = [threads EXCEPT ![t] =
              IF th.i >= Len(HashesOf(t))
              THEN Returned([th EXCEPT !.i = th.i + 1], got)
              ELSE [th EXCEPT !.got = got, !.i = th.i + 1, !.pc = "next"]]
    /\ UNCHANGED <<chunk_size, persist_path, dict, disk, last, prev, calls>>

ConcNext ==
    \/ \E t \in StoreThreads, tokens \in ConcSeqs, fmt \in Formats,
          skip_existing \in BOOLEAN : StartStore(t, tokens, fmt, skip_existing)
    \/ \E t \in StoreThreads : StoreProduce(t)
    \/ \E t \in StoreThreads : StoreFail(t)
    \/ \E t \in StoreThreads : StorePut(t)
    \/ \E tokens \in ConcSeqs, fmt \in Formats :
          StartRetrive(RetriveThread, tokens, fmt, "cuda")
    \/ RetriveTest(RetriveThread)
    \/ RetriveGet(RetriveThread)

ConcSpec == ConcInit /\ [][ConcNext]_vars

\* ================================================================ claims
\* the number of chunks of a token sequence for this engine
NumChunks(tokens) == Len(Range0(Len(tokens), chunk_size))

\* the chunk keys of a token sequence under a layout, in chunk order
ChunkKeys(tokens, fmt) ==
    LET hs == prefix_hash(chunk_tokens(tokens, chunk_size))
    IN  Tuple([j \in 1..Len(hs) |-> Key(hs[j], fmt)])

\* A bundle token by token: for each token position, the elements of every
\* layer, key and value, and head at that position.  A bundle of no tokens
\* and a bundle of no layers both have no positions.
TokenCount(kv, fmt) == IF Len(kv) = 0 THEN 0 ELSE num_tokens_in_kv(kv, fmt)
Canon(kv, fmt) ==
    Tuple([p \in 1..TokenCount(kv, fmt) |->
        Tuple([l \in 1..Len(kv) |->
            Tuple([s \in 1..2 |->
                Tuple([h \in 1..NumHeads |->
                    IF fmt = "huggingface" THEN kv[l][s].data[h][p]
                    ELSE kv[l][s].data[p][h]])])])])

\* the kv_tensors argument of a recorded store call
StoredBundle(call) == KVInput(call.bundle, call.ntok, call.nlayers, call.fmt)

\* the last call is a retrive that returned, right after a store of the same
\* tokens under the same layout that returned
StoreThenRetrive ==
    /\ last.op = "retrive" /\ last.result = "tuple"
    /\ prev.op = "store" /\ prev.result = "None"
    /\ prev.tokens = last.tokens /\ prev.fmt = last.fmt

\* C1 as stated: store(T, B, L) followed by retrive(T, L) returns a bundle
\* equal to B and the matched token count len(T), whatever the store held
\* before the store call.  (Equal: the same values at every token position.)
C1_RoundTrip_AsStated ==
    StoreThenRetrive =>
        /\ Canon(last.returned[1], last.fmt) = Canon(StoredBundle(prev), prev.fmt)
        /\ last.returned[2] = Len(last.tokens)

\* C1 amended: store(T, B, L) followed by retrive(T, L) returns the matched
\* token count len(T); the returned bundle equals B when T is not empty and
\* the store call wrote every chunk of T (n_chunks is the number of chunks of
\* T: always with skip_existing = False, and with skip_existing = True when
\* no chunk key of T was present before); for the empty T it is the empty
\* tuple, which has no layers.
C1_RoundTrip ==
    StoreThenRetrive =>
        /\ last.returned[2] = Len(last.tokens)
        /\ (last.tokens # <<>> /\ prev.n_chunks = NumChunks(prev.tokens))
              => Data(last.returned[1]) = Data(StoredBundle(prev))
        /\ last.tokens = <<>> => last.returned[1] = <<>>

\* a round trip of two chunks through a store that already held entries
C1_Witness ==
    /\ StoreThenRetrive
    /\ NumChunks(last.tokens) = 2
    /\ prev.n_chunks = 2
    /\ prev.size_before > 0
    /\ Data(last.returned[1]) = Data(StoredBundle(prev))

\* the elements of all tensors of a bundle
Elems(kv) ==
    UNION {UNION {{kv[l][s].data[i][j] : j \in 1..Len(kv[l][s].data[i])} :
                     i \in 1..Len(kv[l][s].data)} :
              l \in 1..Len(kv), s \in 1..2}

\* how many leading chunk keys of the sequence keys the store holds
RECURSIVE Matched(_, _)
Matched(keys, d) ==
    IF keys = <<>> \/ Head(keys) \notin DOMAIN d THEN 0
    ELSE 1 + Matched(Tail(keys), d)

\* the last call is a retrive that returned; retrive leaves the store as it
\* found it, so dict is the store it ran on
Retrived == last.op = "retrive" /\ last.result = "tuple"

\* C2 (prefix truncation, I4): when the keys of chunks 0..k-1 of T are
\* present under L and the key of chunk k < n is absent, retrive(T, L) returns
\* as matched token count the token count of chunks 0..k-1, and its result
\* shares no element with the stored value of any chunk of T of index > k
\* that is present.
C2_PrefixTruncation ==
    Retrived =>
        LET keys == ChunkKeys(last.tokens, last.fmt)
            chunks == chunk_tokens(last.tokens, chunk_size)
            k == Matched(keys, dict)
        IN  k < Len(keys) =>
              /\ last.returned[2] = Len(Flatten(SubSeq(chunks, 1, k)))
              /\ \A j \in (k + 1)..Len(keys) :
                    keys[j] \in DOMAIN dict =>
                       Elems(dict[keys[j]]) \cap Elems(last.returned[1]) = {}

\* a retrive that matched a chunk, missed the next and left a later one, which
\* is present, out
C2_Witness ==
    /\ Retrived
    /\ LET keys == ChunkKeys(last.tokens, last.fmt)
           k == Matched(keys, dict)
       IN  /\ k >= 1
           /\ \E j \in (k + 2)..Len(keys) : keys[j] \in DOMAIN dict
           /\ last.returned[2] = k * chunk_size

\* C3 (longest prefix): retrive(T, L) returns the in-order concatenation of
\* the stored values of chunks 0..k-1 of T, k the largest number such that
\* the keys of chunks 0..k-1 are all present under L, on the device asked
\* for; the matched token count is min(k * chunk_size, len(T)), and position
\* p of the result holds elements that were stored for position p of T.
C3_LongestPrefix ==
    /\ (last.op = "retrive" /\ last.fmt \in Formats) => last.result = "tuple"
    /\ Retrived =>
        LET keys == ChunkKeys(last.tokens, last.fmt)
            k == Matched(keys, dict)
            ret == last.returned[1]
        IN  /\ last.returned[2] = Min(k * chunk_size, Len(last.tokens))
            /\ Len(ret) = IF k = 0 THEN 0 ELSE NumLayers
            /\ Canon(ret, last.fmt)
                  = Flatten([j \in 1..k |-> Canon(dict[keys[j]], last.fmt)])
            /\ \A l \in 1..Len(ret), s \in 1..2 : ret[l][s].device = last.device
            /\ \A p \in 1..Len(Canon(ret, last.fmt)) :
                  \A l \in 1..Len(ret), s \in 1..2, h \in 1..NumHeads :
                     Canon(ret, last.fmt)[p][l][s][h] % 10 = p

\* a retrive that matched every chunk of a sequence whose last chunk is short,
\* with chunks that were stored from two different bundles
C3_Witness ==
    /\ Retrived
    /\ LET keys == ChunkKeys(last.tokens, last.fmt)
           k == Matched(keys, dict)
       IN  /\ k = Len(keys) /\ k >= 2
           /\ last.returned[2] = Len(last.tokens)
           /\ last.returned[2] < k * chunk_size
           /\ \E e1, e2 \in Elems(last.returned[1]) : e1 \div 10000 # e2 \div 10000

\* how many leading chunks of the two token sequences are full and equal
RECURSIVE SharedFullChunks(_, _)
SharedFullChunks(c1, c2) ==
    IF c1 = <<>> \/ c2 = <<>> \/ Head(c1) # Head(c2) \/ Len(Head(c1)) # chunk_size
    THEN 0
    ELSE 1 + SharedFullChunks(Tail(c1), Tail(c2))

\* how many leading chunks of the two token sequences are equal
RECURSIVE SharedChunks(_, _)
SharedChunks(c1, c2) ==
    IF c1 = <<>> \/ c2 = <<>> \/ Head(c1) # Head(c2) THEN 0
    ELSE 1 + SharedChunks(Tail(c1), Tail(c2))

\* the last call is a retrive that returned, right after a store that
\* returned, made on an empty store under the same layout
StoreOnEmptyThenRetrive ==
    /\ Retrived
    /\ prev.op = "store" /\ prev.result = "None" /\ prev.size_before = 0
    /\ prev.fmt = last.fmt

\* C4 (prefix reuse): after store(T, B, L) on an empty store, retrive(T2, L)
\* for a T2 whose first m full chunks are those of T returns a matched token
\* count of at least m * chunk_size and, at the first m * chunk_size token
\* positions, the values of B; if chunk j is the first chunk where T2 and T
\* differ, no element of B of chunk j or later is returned.
C4_PrefixReuse ==
    StoreOnEmptyThenRetrive =>
        LET c1 == chunk_tokens(prev.tokens, chunk_size)
            c2 == chunk_tokens(last.tokens, chunk_size)
            m == SharedFullChunks(c1, c2)
            j == SharedChunks(c1, c2)
            ret == Canon(last.returned[1], last.fmt)
            B == Canon(StoredBundle(prev), prev.fmt)
        IN  /\ last.returned[2] >= m * chunk_size
            /\ Len(ret) >= m * chunk_size
            /\ SubSeq(ret, 1, m * chunk_size) = SubSeq(B, 1, m * chunk_size)
            /\ j < Len(c2) =>
                  Elems(last.returned[1])
                     \cap Elems(slice_kv_at(j * chunk_size, Len(prev.tokens),
                                            StoredBundle(prev), prev.fmt, "cpu")) = {}

\* a request that shares its first chunk with the stored sequence and differs
\* in its second, which the stored sequence has too
C4_Witness ==
    /\ StoreOnEmptyThenRetrive
    /\ LET c1 == chunk_tokens(prev.tokens, chunk_size)
           c2 == chunk_tokens(last.tokens, chunk_size)
       IN  /\ SharedFullChunks(c1, c2) = 1
           /\ Len(c1) = 2 /\ Len(c2) = 2
           /\ c1[2] # c2[2]
           /\ last.returned[2] = chunk_size

\* the last two calls are store calls with skip_existing = True of the same
\* tokens and bundle under the same layout, and both returned
StoreTwice ==
    /\ last.op = "store" /\ last.result = "None" /\ last.skip_existing
    /\ prev.op = "store" /\ prev.result = "None" /\ prev.skip_existing
    /\ prev.tokens = last.tokens /\ prev.fmt = last.fmt /\ prev.bundle = last.bundle

StoreThenRetriveOther ==
    /\ Retrived
    /\ prev.op = "store" /\ prev.result = "None" /\ prev.size_before = 0
    /\ prev.tokens = last.tokens
    /\ prev.fmt # last.fmt

\* C6 (the layout is part of the key): when the only entries of the store
\* were written by store(T, B, L1), retrive(T, L2) for the other layout L2
\* returns the empty bundle and the matched token count 0.
C6_LayoutInKey ==
    (StoreThenRetriveOther) =>
        last.returned = <<<<>>, 0>>

\* a two-chunk sequence stored under one layout and asked for under the other
C6_Witness ==
    /\ StoreThenRetriveOther
    /\ prev.n_chunks = 2
    /\ last.returned = <<<<>>, 0>>

\* the last two calls hashed the chunks of two token sequences
TwoChains == last.op = "prefix_hash" /\ prev.op = "prefix_hash"

\* C7 (hash-chain sensitivity, I2): the chain gives one hash per chunk; two
\* chunks with the same token ids whose preceding chunks differ get
\* different hashes, whatever their indices (in two sequences or in one),
\* and the hash of chunk i is the same for sequences that agree on chunks
\* 0..i.
C7_HashChainSensitivity ==
    TwoChains =>
        LET c1 == chunk_tokens(prev.tokens, chunk_size)
            c2 == chunk_tokens(last.tokens, chunk_size)
            h1 == prev.returned
            h2 == last.returned
        IN  /\ Len(h1) = Len(c1) /\ Len(h2) = Len(c2)
            /\ \A i \in 1..Len(c1), j \in 1..Len(c2) :
                  /\ (c1[i] = c2[j] /\ SubSeq(c1, 1, i - 1) # SubSeq(c2, 1, j - 1))
                        => h1[i] # h2[j]
                  /\ SubSeq(c1, 1, i) = SubSeq(c2, 1, j) => h1[i] = h2[j]

\* the first chunk of one sequence has the token ids of a later chunk of the
\* other, and the second chunks of two sequences are equal after different
\* first chunks
C7_Witness ==
    /\ TwoChains
    /\ LET c1 == chunk_tokens(prev.tokens, chunk_size)
           c2 == chunk_tokens(last.tokens, chunk_size)
       IN  /\ Len(c1) >= 2 /\ Len(c2) >= 2
           /\ c1[1] = c2[2] /\ prev.returned[1] # last.returned[2]
           /\ c1[2] = c2[2] /\ c1[1] # c2[1] /\ prev.returned[2] # last.returned[2]

\* C8 (empty input): retrive of the empty token sequence under a valid layout
\* returns the empty bundle and the matched token count 0 in every store
\* state, and so does a retrive whose first chunk misses.
C8_EmptyInput ==
    (/\ last.op = "retrive" /\ last.fmt \in Formats
     /\ \/ last.tokens = <<>>
        \/ ChunkKeys(last.tokens, last.fmt)[1] \notin DOMAIN dict)
    => (last.result = "tuple" /\ last.returned = <<<<>>, 0>>)

\* a retrive of the empty sequence on a store that holds entries
C8_Witness ==
    /\ last.op = "retrive" /\ last.fmt \in Formats
    /\ last.tokens = <<>>
    /\ DOMAIN dict # {}
    /\ last.returned = <<<<>>, 0>>

\* C9 (retrive does not mutate the store): a retrive call, with a valid or an
\* invalid layout, returning or raising, leaves the key set and every stored
\* value as they were.
C9_RetriveReadOnly ==
    [][(calls' = calls + 1 /\ last'.op = "retrive") => dict' = dict]_vars

\* a retrive that read two stored chunks
C9_Witness ==
    /\ Retrived
    /\ last.returned[2] >= 2
    /\ Matched(ChunkKeys(last.tokens, last.fmt), dict) = 2

\* a store call whose arguments break a precondition: tokens not
\* one-dimensional, no layers, or a token count under a valid layout that
\* differs from len(tokens)
ShapeMismatch(call) ==
    /\ call.op = "store"
    /\ \/ call.ndim # 1
       \/ call.nlayers = 0
       \/ call.fmt \in Formats /\ call.ntok # Len(call.tokens)

\* C10 (ShapeMismatch): a store call that breaks a precondition fails with
\* the assertion error, writes no chunk and leaves the store unchanged.
C10_ShapeMismatch ==
    [][(calls' = calls + 1 /\ ShapeMismatch(last'))
          => (last'.result = "AssertionError" /\ last'.n_chunks = 0 /\ dict' = dict)]_vars

\* a store of one-dimensional tokens and a bundle with layers, whose token
\* count is wrong, on a store that holds none of its chunks
C10_Witness ==
    /\ ShapeMismatch(last)
    /\ last.ndim = 1 /\ last.nlayers > 0 /\ last.tokens # <<>>
    /\ last.result = "AssertionError"
    /\ DOMAIN dict # {}
    /\ \A j \in 1..NumChunks(last.tokens) :
          ChunkKeys(last.tokens, last.fmt)[j] \notin DOMAIN dict

\* a step that is a store or retrive call under a layout outside the
\* enumeration
InvalidLayoutCall ==
    /\ calls' = calls + 1
    /\ last'.op \in {"store", "retrive"}
    /\ last'.fmt \notin Formats

\* C11 as stated: store and retrive under a layout outside the enumeration
\* fail with the invalid-layout error (ValueError) in every store state and
\* for every token sequence; store writes no entry and retrive returns no
\* result.
C11_InvalidLayout_AsStated ==
    [][InvalidLayoutCall =>
          (last'.result = "ValueError" /\ last'.returned = <<>> /\ dict' = dict)]_vars

\* C11 amended: retrive under a layout outside the enumeration fails with the
\* invalid-layout error (ValueError) for every store state and token
\* sequence; store does so when its tokens are one-dimensional and its bundle
\* has at least one layer, whatever the token count of the bundle, and fails
\* with the assertion error otherwise.  Either call returns nothing and
\* leaves the store unchanged, with no key under the invalid layout.
C11_InvalidLayout ==
    [][InvalidLayoutCall =>
          /\ last'.returned = <<>> /\ dict' = dict
          /\ \A k \in DOMAIN dict' : k[2] \in Formats
          /\ last'.result =
                IF last'.op = "store" /\ (last'.ndim # 1 \/ last'.nlayers = 0)
                THEN "AssertionError" ELSE "ValueError"]_vars

\* a store of one-dimensional tokens and a bundle with layers and the right
\* token count under an invalid layout, on a store that holds entries
C11_Witness ==
    /\ last.op = "store" /\ last.fmt \notin Formats
    /\ last.ndim = 1 /\ last.nlayers > 0 /\ last.ntok = Len(last.tokens)
    /\ last.tokens # <<>>
    /\ last.result = "ValueError"
    /\ DOMAIN dict # {}

\* The tensors of layers 1..nlayers of input bundle b at token positions
\* lo..hi (counted from 1), on the cpu: what a slice of the bundle holds.
PositionsOfInput(b, nlayers, fmt, lo, hi) ==
    LET T(l, kv) ==
            [device |-> "cpu",
             data |-> IF fmt = "vllm"
                      THEN Tuple([p \in 1..(hi - lo + 1) |->
                               Tuple([h \in 1..NumHeads |-> Elem(b, l, kv, h, lo + p - 1)])])
                      ELSE Tuple([h \in 1..NumHeads |->
                               Tuple([p \in 1..(hi - lo + 1) |-> Elem(b, l, kv, h, lo + p - 1)])])]
    IN  Tuple([l \in 1..nlayers |-> <<T(l, 0), T(l, 1)>>])

\* the slice of the bundle of a store call that covers chunk j (from 1) of its
\* tokens: tokens [(j-1)*chunk_size, min(j*chunk_size, len(T)))
ChunkOf(call, j) ==
    PositionsOfInput(call.bundle, call.nlayers, call.fmt,
                     (j - 1) * chunk_size + 1, Min(j * chunk_size, Len(call.tokens)))

\* a step that is a store call that returned
StoreReturns == calls' = calls + 1 /\ last'.op = "store" /\ last'.result = "None"

\* C12 (skip-existing): a store call with skip_existing = True keeps the value
\* of every key that was present before it, writes exactly the chunk keys of
\* its tokens that were absent, each with the slice of its bundle that covers
\* the chunk, and counts those writes.
C12_SkipExisting ==
    [][(StoreReturns /\ last'.skip_existing) =>
          LET keys == ChunkKeys(last'.tokens, last'.fmt)
              absent == {j \in 1..Len(keys) : keys[j] \notin DOMAIN dict}
          IN  /\ DOMAIN dict' = (DOMAIN dict) \cup {keys[j] : j \in 1..Len(keys)}
              /\ \A k \in DOMAIN dict : dict'[k] = dict[k]
              /\ \A j \in absent : dict'[keys[j]] = ChunkOf(last', j)
              /\ last'.n_chunks = Cardinality(absent)]_vars

\* a skip-existing store of two chunks of which the first was present with the
\* value of another bundle, which it keeps, and the second was absent
C12_Witness ==
    /\ last.op = "store" /\ last.result = "None" /\ last.skip_existing
    /\ NumChunks(last.tokens) = 2 /\ last.n_chunks = 1
    /\ LET keys == ChunkKeys(last.tokens, last.fmt)
       IN  /\ dict[keys[1]] # ChunkOf(last, 1)
           /\ dict[keys[2]] = ChunkOf(last, 2)

\* a retrive step right after a store with skip_existing = False that
\* returned, of the same tokens under the same layout
RetriveAfterOverwrite ==
    /\ last.op = "store" /\ last.result = "None" /\ ~last.skip_existing
    /\ calls' = calls + 1 /\ last'.op = "retrive"
    /\ last'.tokens = last.tokens /\ last'.fmt = last.fmt

\* C13 (overwrite on store): a store call with skip_existing = False writes
\* every chunk key of its tokens, so that afterwards each maps to the slice of
\* the bundle that covers the chunk whatever it held before; the number of
\* entries grows by the number of keys that were absent; and a retrive of the
\* same tokens that follows returns the values of the bundle at every token
\* position, with the matched token count len(T), from any prior store state.
C13_Overwrite ==
    [][/\ (StoreReturns /\ ~last'.skip_existing) =>
             LET keys == ChunkKeys(last'.tokens, last'.fmt)
                 absent == {j \in 1..Len(keys) : keys[j] \notin DOMAIN dict}
             IN  /\ \A j \in 1..Len(keys) :
                       keys[j] \in DOMAIN dict' /\ dict'[keys[j]] = ChunkOf(last', j)
                 /\ last'.n_chunks = Len(keys)
                 /\ Cardinality(DOMAIN dict') = Cardinality(DOMAIN dict) + Cardinality(absent)
       /\ RetriveAfterOverwrite =>
             /\ last'.result = "tuple"
             /\ Canon(last'.returned[1], last'.fmt) = Canon(StoredBundle(last), last.fmt)
             /\ last'.returned[2] = Len(last.tokens)]_vars

\* a retrive of two chunks after a store with skip_existing = False that
\* replaced the values of another bundle under both keys and added no entry
C13_Witness ==
    /\ StoreThenRetrive /\ ~prev.skip_existing
    /\ NumChunks(prev.tokens) = 2 /\ prev.n_chunks = 2
    /\ prev.bundle = 2
    /\ prev.size = prev.size_before
    /\ Data(last.returned[1]) = Data(StoredBundle(prev))

\* the token-axis extent of the bundle stored under key k in store d
Extent(d, k) == num_tokens_in_kv(d[k], k[2])

\* C14 (stored-chunk extent, I3): after every store call each stored bundle
\* has a token-axis extent between 1 and chunk_size, and an entry the call
\* wrote has an extent smaller than chunk_size only if its key is that of the
\* last chunk of the tokens being stored.
C14_ChunkExtent ==
    [][StoreReturns =>
          LET keys == ChunkKeys(last'.tokens, last'.fmt)
          IN  \A k \in DOMAIN dict' :
                 /\ Extent(dict', k) \in 1..chunk_size
                 /\ (Extent(dict', k) < chunk_size
                     /\ (k \notin DOMAIN dict \/ dict'[k] # dict[k]))
                       => (keys # <<>> /\ k = keys[Len(keys)])]_vars

\* a store whose only chunk is shorter than chunk_size, in a store that also
\* holds a full chunk
C14_Witness ==
    /\ last.op = "store" /\ last.result = "None" /\ last.n_chunks = 1
    /\ Len(last.tokens) < chunk_size
    /\ Extent(dict, ChunkKeys(last.tokens, last.fmt)[1]) = Len(last.tokens)
    /\ \E k \in DOMAIN dict : Extent(dict, k) = chunk_size

\* the chunk keys of the tokens of thread t, in chunk order
KeysOf(t) == ChunkKeys(threads[t].tokens, threads[t].fmt)

\* the result of a retrive thread is a run of token positions 1..count without
\* a gap: position p holds elements stored for position p
GapFree(th) ==
    /\ th.result = "tuple"
    /\ th.returned[2] = Min(Len(th.got) * chunk_size, Len(th.tokens))
    /\ LET c == Canon(th.returned[1], th.fmt)
       IN  /\ Len(c) = th.returned[2]
           /\ c = Flatten([j \in 1..Len(th.got) |-> Canon(th.got[j], th.fmt)])
           /\ \A p \in 1..Len(c) :
                 \A l \in 1..Len(th.returned[1]), s \in 1..2, h \in 1..NumHeads :
                    c[p][l][s][h] % 10 = p

\* C15 (non-transactional store): store puts its chunks one at a time in
\* increasing chunk index.  When the call fails while it produces chunk j,
\* the entries it wrote for chunks before j remain, it has written no chunk
\* from j on, every chunk key before j is present, and a retrive of the same
\* tokens made after the failure returns a prefix without a gap that covers
\* the chunks before j (exactly those when no other store call ran).
C15_NonTransactional ==
    \A t \in StoreThreads :
       threads[t].op = "store" =>
          LET th == threads[t]
              keys == KeysOf(t)
              alone == \A u \in StoreThreads \ {t} : threads[u].op = "none"
              r == threads[RetriveThread]
          IN  /\ th.written \subseteq 1..(th.i - 1)
              /\ th.n_chunks = Cardinality(th.written)
              /\ th.pc = "failed" =>
                    /\ th.i \in 1..Len(keys)
                    /\ \A j \in 1..(th.i - 1) : keys[j] \in DOMAIN dict
                    /\ alone =>
                          /\ DOMAIN dict = {keys[j] : j \in 1..(th.i - 1)}
                          /\ \A j \in 1..(th.i - 1) : dict[keys[j]] = ChunkOf(th, j)
                    /\ (r.pc = "done" /\ t \in r.after /\ r.tokens = th.tokens) =>
                          /\ GapFree(r)
                          /\ r.returned[2] >= (th.i - 1) * chunk_size
                          /\ alone => r.returned[2] = (th.i - 1) * chunk_size

\* a store call that wrote its first chunk and failed on the second, and a
\* retrive of the same tokens made after it that returned the first chunk
C15_Witness ==
    \E t \in StoreThreads :
       /\ threads[t].pc = "failed" /\ threads[t].i = 2 /\ threads[t].written = {1}
       /\ \A u \in StoreThreads \ {t} : threads[u].op = "none"
       /\ threads[RetriveThread].pc = "done"
       /\ t \in threads[RetriveThread].after
       /\ threads[RetriveThread].tokens = threads[t].tokens
       /\ threads[RetriveThread].returned[2] = chunk_size
       /\ Data(threads[RetriveThread].returned[1]) = Data(ChunkOf(threads[t], 1))

\* v is a complete bundle that a store call started so far writes under key
\* k: for a call that has k as the key of its chunk j, the slice of its
\* bundle that covers chunk j
Complete(k, v) ==
    \E u \in StoreThreads :
       /\ threads[u].op = "store"
       /\ \E j \in 1..NumChunks(threads[u].tokens) :
             /\ v = ChunkOf(threads[u], j)
             /\ KeysOf(u)[j] = k

\* C16 (concurrent store and retrive): while store calls run, every entry of
\* the store and every chunk a retrive has collected is a complete bundle
\* that one store call wrote under that key, never a part of one; the chunks
\* collected are those of chunks 0..k-1 of its tokens in order, and the
\* result is their concatenation, a prefix without a gap.
C16_ConcurrentRetrive ==
    /\ \A k \in DOMAIN dict : Complete(k, dict[k])
    /\ LET r == threads[RetriveThread]
       IN  r.op = "retrive" =>
              /\ Len(r.got) = r.i - 1
              /\ \A j \in 1..Len(r.got) :
                    Complete(KeysOf(RetriveThread)[j], r.got[j])
              /\ r.pc = "done" => GapFree(r)

\* a retrive that started before any store call had ended, collected the
\* value of its first chunk, and returned it after a store call had replaced
\* that value in the store
C16_Witness ==
    LET r == threads[RetriveThread]
    IN  /\ r.pc = "done" /\ r.after = {}
        /\ Len(r.got) >= 1
        /\ dict[KeysOf(RetriveThread)[1]] # r.got[1]
        /\ r.returned[2] >= 1

\* every store call that was started has ended
StoresEnded == \A t \in StoreThreads : threads[t].pc \in {"idle", "done", "failed"}

\* the keys that the store call of thread t has put
WrittenKeys(t) == {KeysOf(t)[j] : j \in threads[t].written}

\* C17 (concurrent stores): when the store calls of any interleaving, the
\* presence test and the put being separate steps, have ended, every chunk
\* key of every sequence whose store returned is present; the keys of the
\* store are exactly the keys the calls put (none is lost, a key put by two
\* calls is one entry); and the value of each is the complete slice of the
\* bundle of one call that put that key, not a mix of two.
C17_ConcurrentStores ==
    StoresEnded =>
       /\ \A t \in StoreThreads :
             threads[t].pc = "done" =>
                \A j \in 1..Len(KeysOf(t)) : KeysOf(t)[j] \in DOMAIN dict
       /\ DOMAIN dict = UNION {WrittenKeys(t) : t \in StoreThreads}
       /\ Cardinality(DOMAIN dict)
             <= Cardinality({<<t, j>> \in StoreThreads \X (1..MaxLen) :
                                j \in threads[t].written})
       /\ \A k \in DOMAIN dict :
             \E t \in StoreThreads : \E j \in threads[t].written :
                KeysOf(t)[j] = k /\ dict[k] = ChunkOf(threads[t], j)

\* two store calls with skip_existing = True that ran at the same time and
\* both found the key of the first chunk absent and put it
C17_Witness ==
    /\ \A t \in StoreThreads :
          /\ threads[t].pc = "done" /\ threads[t].skip_existing
          /\ threads[t].after = {}
          /\ 1 \in threads[t].written
    /\ KeysOf(1)[1] = KeysOf(2)[1]
    /\ Cardinality(DOMAIN dict) = 2

\* the last call hashed the chunks of a token sequence
Chained == last.op = "prefix_hash"

\* the chain that starts from seed: hash_i = H(prefixHash_{i-1} ++
\* rawBytes(block_i)), one hash per block in block order
IsChainFrom(seed, blocks, hashes) ==
    /\ Len(hashes) = Len(blocks)
    /\ \A i \in 1..Len(blocks) :
          hashes[i] = sha256_hexdigest(
                         encode(IF i = 1 THEN seed ELSE hashes[i - 1])
                         \o tobytes(blocks[i]))

\* C18 as stated: the chain starts from the hash of the empty string, so the
\* hash of the first chunk is H(H("") ++ rawBytes(block_0)).
C18_HashChainConstruction_AsStated ==
    Chained =>
        IsChainFrom(sha256_hexdigest(<<>>),
                    chunk_tokens(last.tokens, chunk_size), last.returned)

\* C18 amended: the chain starts from the empty string, the same for every
\* engine, so the hash of the first chunk is H(rawBytes(block_0)); for each
\* later block hash_i = H(hash_{i-1} ++ rawBytes(block_i)), and the chain
\* gives one hash per block in block order.
C18_HashChainConstruction ==
    Chained =>
        IsChainFrom(<<>>, chunk_tokens(last.tokens, chunk_size), last.returned)

\* a chain of two blocks or more, whose first hash is the digest of the bytes
\* of the first block alone
C18_Witness ==
    /\ Chained
    /\ Len(last.returned) >= 2
    /\ last.returned[1]
          = sha256_hexdigest(tobytes(chunk_tokens(last.tokens, chunk_size)[1]))
    /\ last.returned[1] # last.returned[2]

\* a retrive step right after a store that returned, of the same tokens under
\* the same layout
RetriveAfterStore ==
    /\ last.op = "store" /\ last.result = "None"
    /\ calls' = calls + 1 /\ last'.op = "retrive"
    /\ last'.tokens = last.tokens /\ last'.fmt = last.fmt

\* C19 (full coverage after store): from any store state and for either
\* value of skip_existing, when store(T, B, L) has returned every chunk key of
\* T under L is present, and a retrive(T, L) that follows at once returns the
\* matched token count len(T).  (The bundles of one engine have the layers and
\* heads of one model.)
C19_FullCoverage ==
    [][/\ StoreReturns =>
             \A j \in 1..NumChunks(last'.tokens) :
                ChunkKeys(last'.tokens, last'.fmt)[j] \in DOMAIN dict'
       /\ RetriveAfterStore =>
             (last'.result = "tuple" /\ last'.returned[2] = Len(last.tokens))]_vars

\* a retrive of two chunks after a skip-existing store that wrote the second
\* chunk only: the first chunk returned is that of an earlier bundle
C19_Witness ==
    /\ StoreThenRetrive /\ prev.skip_existing
    /\ NumChunks(prev.tokens) = 2 /\ prev.n_chunks = 1
    /\ last.returned[2] = Len(prev.tokens)
    /\ Canon(last.returned[1], last.fmt)[1] # Canon(StoredBundle(prev), prev.fmt)[1]
    /\ Canon(last.returned[1], last.fmt)[Len(prev.tokens)]
          = Canon(StoredBundle(prev), prev.fmt)[Len(prev.tokens)]

\* C20 (store frame and monotonic growth): a store call changes and adds
\* only entries whose key is that of a chunk of its tokens under its layout;
\* entries under the other layout and entries of other hash chains stay as
\* they are; retrive and persist leave the store as it is; and no step
\* removes a key.
C20_StoreFrame ==
    [][/\ (DOMAIN dict) \subseteq (DOMAIN dict')
       /\ (calls' = calls + 1 /\ last'.op = "store") =>
             LET keys == ChunkKeys(last'.tokens, last'.fmt)
                 own == {keys[j] : j \in 1..Len(keys)}
             IN  /\ \A k \in (DOMAIN dict) \ own : dict'[k] = dict[k]
                 /\ (DOMAIN dict') \subseteq ((DOMAIN dict) \cup own)
       /\ (calls' = calls + 1 /\ last'.op \in {"retrive", "persist"}) =>
             dict' = dict]_vars

\* a store that wrote a chunk into a store that holds an entry under the
\* other layout and an entry under the same layout of another hash chain
C20_Witness ==
    /\ last.op = "store" /\ last.result = "None" /\ last.n_chunks >= 1
    /\ \E k \in DOMAIN dict : k[2] # last.fmt
    /\ \E k \in DOMAIN dict :
          /\ k[2] = last.fmt
          /\ \A j \in 1..NumChunks(last.tokens) : ChunkKeys(last.tokens, last.fmt)[j] # k
====
